---------------------------- MODULE Spec2Model ----------------------------
(***************************************************************************)
(* A model of the transcript pipeline of persona-builder:                  *)
(*   src/process_banciu_transcripts.py  (load, acquire, clean, chunk, run) *)
(*   src/fetch_banciu_videos.py         (date parsing, video search)       *)
(*                                                                         *)
(* A Python str is a sequence of one-character strings, so that strip,     *)
(* split, join and the regular expressions are computed character by       *)
(* character as the code computes them.                                    *)
(***************************************************************************)
EXTENDS Integers, Sequences, FiniteSets, TLC

VARIABLES
    chunker,    \* split_into_chunks: its arguments, its position, its result
    cleaner,    \* clean_transcript_text: its argument, its position, its results
    episode,    \* process_video: its arguments, its position, what it did so far
    output_dir, \* the files written: resolved path -> saved episode data
    locator,    \* find_video_for_date: its arguments, its position, its queries
    run,        \* main of the chunking stage: its input, its position, its tally
    recorder,   \* build_episode_json + save_episode_json: the runs made so far
    resolver    \* parse_romanian_date: its arguments, its position, its outcome

vars == <<chunker, cleaner, episode, output_dir, locator, run, recorder, resolver>>

\* A component that a specification does not run.
Idle == [pc |-> "idle"]

(***************************************************************************)
(* Strings                                                                 *)
(***************************************************************************)

\* The characters \s, str.strip() and str.split() treat as whitespace.
WhiteSpace == {" ", "\n"}

AsciiUpper == <<"A", "B", "C", "D", "E", "F", "G", "H", "I", "J", "K", "L", "M", "N", "O", "P", "Q", "R", "S", "T", "U", "V", "W", "X", "Y", "Z">>

AsciiLower == <<"a", "b", "c", "d", "e", "f", "g", "h", "i", "j", "k", "l", "m", "n", "o", "p", "q", "r", "s", "t", "u", "v", "w", "x", "y", "z">>

\* The five accented capitals of sentence_pattern, one atom for each character.
RomanianUpper == {"A_breve", "A_circumflex", "I_circumflex", "S_comma", "T_comma"}

\* The class [A-Z + accented capitals] of sentence_pattern.
UpperChars == {AsciiUpper[i] : i \in 1..26} \cup RomanianUpper

\* The lower-case letter of each upper-case letter.
LowerOf == [c \in {AsciiUpper[i] : i \in 1..26} |->
               AsciiLower[CHOOSE i \in 1..26 : AsciiUpper[i] = c]]

\* str.lower() on one character.
LowerChar(c) == IF c \in DOMAIN LowerOf THEN LowerOf[c] ELSE c

\* str.lower()
Lower(s) == [i \in 1..Len(s) |-> LowerChar(s[i])]

\* The class [.!?] of sentence_pattern.
SentenceEnd == {".", "!", "?"}

MinOf(S) == CHOOSE m \in S : \A k \in S : m <= k

MaxOf(S) == CHOOSE m \in S : \A k \in S : m >= k

\* str.strip(): the string without its leading and trailing whitespace.
Strip(s) ==
    LET keep == {i \in 1..Len(s) : s[i] \notin WhiteSpace}
    IN  IF keep = {} THEN <<>> ELSE SubSeq(s, MinOf(keep), MaxOf(keep))

RECURSIVE SplitAcc(_, _, _)
SplitAcc(s, cur, out) ==
    IF s = <<>>
    THEN IF cur = <<>> THEN out ELSE Append(out, cur)
    ELSE IF Head(s) \in WhiteSpace
         THEN SplitAcc(Tail(s), <<>>, IF cur = <<>> THEN out ELSE Append(out, cur))
         ELSE SplitAcc(Tail(s), Append(cur, Head(s)), out)

\* str.split(): the maximal runs of non-whitespace characters, in order.
SplitWords(s) == SplitAcc(s, <<>>, <<>>)

RECURSIVE Join(_, _)
\* sep.join(parts)
Join(parts, sep) ==
    IF parts = <<>> THEN <<>>
    ELSE IF Len(parts) = 1 THEN parts[1]
    ELSE parts[1] \o sep \o Join(Tail(parts), sep)

\* The first position at or after i that holds no whitespace (Len(s)+1 if none).
RunEnd(s, i) ==
    MinOf({j \in i..(Len(s) + 1) : j = Len(s) + 1 \/ s[j] \notin WhiteSpace})

\* sentence_pattern matches at i: (?<=[.!?]) \s+ (?=[A-Z...]).
SentenceBreakAt(s, i) ==
    /\ i > 1
    /\ i <= Len(s)
    /\ s[i - 1] \in SentenceEnd
    /\ s[i] \in WhiteSpace
    /\ RunEnd(s, i) <= Len(s)
    /\ s[RunEnd(s, i)] \in UpperChars

RECURSIVE ReSplit(_, _, _)
ReSplit(s, i, start) ==
    IF i > Len(s) THEN <<SubSeq(s, start, Len(s))>>
    ELSE IF SentenceBreakAt(s, i)
         THEN <<SubSeq(s, start, i - 1)>> \o ReSplit(s, RunEnd(s, i), RunEnd(s, i))
         ELSE ReSplit(s, i + 1, start)

\* re.split(sentence_pattern, clean_text)
SplitSentences(s) == ReSplit(s, 1, 1)

(***************************************************************************)
(* split_into_chunks                                                       *)
(***************************************************************************)

\* The window is closed before the sentence is added.
WindowClosesNoSentence(current_word_count, sentence_word_count, target, current_chunk) ==
    current_word_count > target /\ current_chunk # <<>>

WindowCloses(current_word_count, sentence_word_count, target, current_chunk) ==
    current_word_count + sentence_word_count > target /\ current_chunk # <<>>

\* The seed taken from the head of the closed window instead of its tail.
OverlapSeedHead(current_chunk, overlap_words) ==
    LET all_words == SplitWords(Join(current_chunk, <<" ">>))
        n == IF Len(all_words) < overlap_words THEN Len(all_words) ELSE overlap_words
    IN  <<Join(SubSeq(all_words, 1, n), <<" ">>)>>

\* The window the next chunk starts from: the trailing overlap_words words.
OverlapSeed(current_chunk, overlap_words) ==
    LET all_words == SplitWords(Join(current_chunk, <<" ">>))
        overlap_start == IF Len(all_words) - overlap_words > 0
                         THEN Len(all_words) - overlap_words ELSE 0
    IN  <<Join(SubSeq(all_words, overlap_start + 1, Len(all_words)), <<" ">>)>>

\* One pass of the loop body over one sentence of re.split's result.
ChunkStep(st, raw_sentence, target, overlap_words) ==
    LET sentence == Strip(raw_sentence)
        sentence_word_count == Len(SplitWords(sentence))
        closes == WindowCloses(st.current_word_count, sentence_word_count,
                               target, st.current_chunk)
        seed == OverlapSeed(st.current_chunk, overlap_words)
        chunks1 == IF closes
                   THEN Append(st.chunks, Join(st.current_chunk, <<" ">>))
                   ELSE st.chunks
        chunk1 == IF ~closes THEN st.current_chunk
                  ELSE IF overlap_words > 0 THEN seed ELSE <<>>
        count1 == IF ~closes THEN st.current_word_count
                  ELSE IF overlap_words > 0 THEN Len(SplitWords(seed[1])) ELSE 0
    IN  IF sentence = <<>> THEN st
        ELSE [chunks |-> chunks1,
              current_chunk |-> Append(chunk1, sentence),
              current_word_count |-> count1 + sentence_word_count]

RECURSIVE ChunkLoop(_, _, _, _)
ChunkLoop(st, sentences, target, overlap_words) ==
    IF sentences = <<>> THEN st
    ELSE ChunkLoop(ChunkStep(st, Head(sentences), target, overlap_words),
                   Tail(sentences), target, overlap_words)

\* The remaining window is dropped.
FlushRemainingDropped(chunks, current_chunk) == chunks

\* "Add remaining chunk"
FlushRemaining(chunks, current_chunk) ==
    IF current_chunk # <<>> THEN Append(chunks, Join(current_chunk, <<" ">>))
    ELSE chunks

split_into_chunks(clean_text, target_word_count, overlap_words) ==
    LET st == ChunkLoop([chunks |-> <<>>, current_chunk |-> <<>>,
                         current_word_count |-> 0],
                        SplitSentences(clean_text), target_word_count, overlap_words)
    IN  FlushRemaining(st.chunks, st.current_chunk)

(***************************************************************************)
(* extract_video_id                                                        *)
(*                                                                         *)
(* A URL is a string whose scheme ("https://") and host, when it has them, *)
(* are one atom each: the code reads the host only through                 *)
(* urlparse(url).hostname and compares it for equality.                    *)
(***************************************************************************)

\* Python's None where a str is expected.
NoneValue == <<"<None>">>

Schemes == {"https://", "http://"}

HostAtoms == {"youtu.be", "www.youtube.com", "youtube.com", "example.com"}

\* The position of the first c in s, 0 when s holds none.
IndexOf(s, c) ==
    IF \E i \in 1..Len(s) : s[i] = c
    THEN MinOf({i \in 1..Len(s) : s[i] = c})
    ELSE 0

RECURSIVE SplitOn(_, _)
\* str.split(sep) for a one-character sep: the pieces, the empty ones included.
SplitOn(s, sep) ==
    IF IndexOf(s, sep) = 0 THEN <<s>>
    ELSE <<SubSeq(s, 1, IndexOf(s, sep) - 1)>>
            \o SplitOn(SubSeq(s, IndexOf(s, sep) + 1, Len(s)), sep)

\* str.startswith(prefix)
StartsWith(s, prefix) ==
    Len(s) >= Len(prefix) /\ SubSeq(s, 1, Len(prefix)) = prefix

\* urlparse(url): hostname, path, query. The network location is what follows
\* the scheme up to the first "/" or "?"; hostname is "None" when there is none
\* and "other" when it is not one of HostAtoms.
urlparse(url) ==
    LET hasScheme == Len(url) >= 1 /\ url[1] \in Schemes
        afterScheme == IF hasScheme THEN SubSeq(url, 2, Len(url)) ELSE url
        ends == {i \in 1..Len(afterScheme) : afterScheme[i] \in {"/", "?"}}
        netlocLen == IF ~hasScheme THEN 0
                     ELSE IF ends = {} THEN Len(afterScheme) ELSE MinOf(ends) - 1
        netloc == SubSeq(afterScheme, 1, netlocLen)
        rest == SubSeq(afterScheme, netlocLen + 1, Len(afterScheme))
        q == IndexOf(rest, "?")
    IN  [hostname |-> IF netloc = <<>> THEN "None"
                      ELSE IF Len(netloc) = 1 /\ netloc[1] \in HostAtoms THEN netloc[1]
                      ELSE "other",
         path |-> IF q = 0 THEN rest ELSE SubSeq(rest, 1, q - 1),
         query |-> IF q = 0 THEN <<>> ELSE SubSeq(rest, q + 1, Len(rest))]

\* parse_qs(query).get('v', [None])[0]: the first non-blank value of key v.
QueryV(query) ==
    LET pairs == SplitOn(query, "&")
        IsV(pair) == /\ IndexOf(pair, "=") = 2
                     /\ pair[1] = "v"
                     /\ Len(pair) > 2
        hits == {i \in 1..Len(pairs) : IsV(pairs[i])}
    IN  IF hits = {} THEN NoneValue
        ELSE SubSeq(pairs[MinOf(hits)], 3, Len(pairs[MinOf(hits)]))

\* An extraction that knows the short, watch and embed links only.
ExtractVideoIdNoLegacy(url) ==
    LET parsed == urlparse(url)
    IN  IF parsed.hostname = "youtu.be" THEN SubSeq(parsed.path, 2, Len(parsed.path))
        ELSE IF parsed.hostname \in {"www.youtube.com", "youtube.com"}
        THEN IF parsed.path = <<"/", "w", "a", "t", "c", "h">>
             THEN QueryV(parsed.query)
             ELSE IF StartsWith(parsed.path, <<"/", "e", "m", "b", "e", "d", "/">>)
             THEN SplitOn(parsed.path, "/")[3]
             ELSE NoneValue
        ELSE NoneValue

extract_video_id(url) ==
    LET parsed == urlparse(url)
    IN  IF parsed.hostname = "youtu.be" THEN SubSeq(parsed.path, 2, Len(parsed.path))
        ELSE IF parsed.hostname \in {"www.youtube.com", "youtube.com"}
        THEN IF parsed.path = <<"/", "w", "a", "t", "c", "h">>
             THEN QueryV(parsed.query)
             ELSE IF StartsWith(parsed.path, <<"/", "e", "m", "b", "e", "d", "/">>)
             THEN SplitOn(parsed.path, "/")[3]
             ELSE IF StartsWith(parsed.path, <<"/", "v", "/">>)
             THEN SplitOn(parsed.path, "/")[3]
             ELSE NoneValue
        ELSE NoneValue

\* Python truth of an Optional[str]: neither None nor ''.
Truthy(v) == v # NoneValue /\ v # <<>>

(***************************************************************************)
(* build_episode_json, save_episode_json                                   *)
(***************************************************************************)

Digits == {"0", "1", "2", "3", "4", "5", "6", "7", "8", "9"}

\* The class \w: letters, digits and the underscore.
WordChars ==
    {AsciiUpper[i] : i \in 1..26} \cup {AsciiLower[i] : i \in 1..26}
        \cup RomanianUpper \cup Digits \cup {"_"}

RECURSIVE CollapseHyphens(_)
\* re.sub(r'[-\s]+', '-', slug)
CollapseHyphens(s) ==
    IF s = <<>> THEN <<>>
    ELSE IF Head(s) \in WhiteSpace \cup {"-"}
         THEN IF Len(s) > 1 /\ s[2] \in WhiteSpace \cup {"-"}
              THEN CollapseHyphens(Tail(s))
              ELSE <<"-">> \o CollapseHyphens(Tail(s))
         ELSE <<Head(s)>> \o CollapseHyphens(Tail(s))

\* The slug of title + '_' + date.
Slugify(title, date) ==
    LET slug == Lower(title \o <<"_">> \o date)
        kept == SelectSeq(slug, LAMBDA c : c \in WordChars \cup WhiteSpace \cup {"-"})
    IN  CollapseHyphens(kept)

EpisodeId(video_info) ==
    IF Truthy(extract_video_id(video_info.url))
    THEN extract_video_id(video_info.url)
    ELSE Slugify(video_info.title, video_info.date)

build_episode_json(video_info, cleaned_text, chunks) ==
    [episode_id |-> EpisodeId(video_info),
     youtube_url |-> video_info.url,
     title |-> video_info.title,
     date |-> video_info.date,
     raw_text_length |-> Len(cleaned_text),
     num_chunks |-> Len(chunks),
     chunks |-> [idx \in 1..Len(chunks) |->
                    [chunk_index |-> idx - 1,
                     text |-> chunks[idx],
                     approx_word_count |-> Len(SplitWords(chunks[idx]))]]]

\* Where output_dir lies: a path is the sequence of its components from the root.
OutputDirPath == << <<"work">>, <<"out">> >>

\* The directories there are when the file is opened: output_dir, made at line
\* 361 with its parents, and what lies above it.
Directories == {SubSeq(OutputDirPath, 1, n) : n \in 0..Len(OutputDirPath)}

\* f"{episode_data['episode_id']}.json"
FileName(episode_id) == episode_id \o <<".json">>

RECURSIVE Walk(_, _)
\* The file a list of path components leads to from the directory at: "" and
\* "." stay, ".." goes up, a name enters that directory, which has to exist;
\* the last component names the file.
Walk(at, parts) ==
    IF Len(parts) = 1 THEN [found |-> TRUE, path |-> Append(at, Head(parts))]
    ELSE IF Head(parts) \in {<<>>, <<".">>} THEN Walk(at, Tail(parts))
    ELSE IF Head(parts) = <<".", ".">>
    THEN Walk(SubSeq(at, 1, MaxOf({Len(at) - 1, 0})), Tail(parts))
    ELSE IF Append(at, Head(parts)) \in Directories
    THEN Walk(Append(at, Head(parts)), Tail(parts))
    ELSE [found |-> FALSE, path |-> <<>>]

\* Line 363 and the open of line 365: output_dir / name is the name itself
\* when it starts with "/", and the system resolves the rest.
OutputFile(episode_id) ==
    LET name == FileName(episode_id)
    IN  Walk(IF Head(name) = "/" THEN <<>> ELSE OutputDirPath, SplitOn(name, "/"))

\* The files after the episode's file is written, replacing a file of that
\* path.  The open raises when OutputFile finds no directory to write in.
save_episode_json(episode_data, dir) ==
    LET output_file == OutputFile(episode_data.episode_id).path
    IN  [file \in DOMAIN dir \cup {output_file} |->
            IF file = output_file THEN episode_data ELSE dir[file]]

(***************************************************************************)
(* The chunker run on its own: Init draws the text and the configuration,  *)
(* SplitIntoChunks applies split_into_chunks to them.                      *)
(***************************************************************************)

MaxTextLen == 7

MaxTarget == 3

TextAlphabet == {"a", "A", ".", " "}

Texts == UNION {[1..n -> TextAlphabet] : n \in 0..MaxTextLen}

InitChunk ==
    /\ chunker \in [clean_text : Texts,
                    target_word_count : 1..MaxTarget,
                    overlap_words : 0..(MaxTarget - 1),
                    pc : {"call"},
                    chunks : {<<>>}]
    /\ chunker.overlap_words < chunker.target_word_count
    /\ cleaner = Idle
    /\ episode = Idle
    /\ output_dir = <<>>
    /\ locator = Idle
    /\ run = Idle
    /\ recorder = Idle
    /\ resolver = Idle

SplitIntoChunks ==
    /\ chunker.pc = "call"
    /\ chunker' = [chunker EXCEPT
                     !.pc = "returned",
                     !.chunks = split_into_chunks(chunker.clean_text,
                                                  chunker.target_word_count,
                                                  chunker.overlap_words)]
    /\ UNCHANGED <<cleaner, episode, output_dir, locator, run, recorder, resolver>>

NextChunk == SplitIntoChunks

SpecChunk == InitChunk /\ [][NextChunk]_vars

(***************************************************************************)
(* Claims about split_into_chunks (checked under SpecChunk)                *)
(***************************************************************************)

WordCount(s) == Len(SplitWords(s))

\* The sentences the loop keeps: re.split's pieces, stripped, the empty ones skipped.
Sentences(text) ==
    LET pieces == SplitSentences(text)
        stripped == [i \in 1..Len(pieces) |-> Strip(pieces[i])]
    IN  SelectSeq(stripped, LAMBDA x : x # <<>>)

\* The words of w occur in v as one contiguous run.
IsWordRun(w, v) ==
    \E k \in 0..(Len(v) - Len(w)) : SubSeq(v, k + 1, k + Len(w)) = w

\* The chunk holds, whole, a sentence of the text that alone exceeds the target.
HasOversizedSentence(chunk, text, target) ==
    \E i \in 1..Len(Sentences(text)) :
        /\ WordCount(Sentences(text)[i]) > target
        /\ IsWordRun(SplitWords(Sentences(text)[i]), SplitWords(chunk))

Returned == chunker.pc = "returned"

\* C1 as stated: every chunk but the last has at most targetWords words, unless
\* it holds a single sentence that alone exceeds targetWords; overlapWords > 0
\* included.
C1_BoundIsTarget ==
    Returned =>
        \A i \in 1..(Len(chunker.chunks) - 1) :
            \/ WordCount(chunker.chunks[i]) <= chunker.target_word_count
            \/ HasOversizedSentence(chunker.chunks[i], chunker.clean_text,
                                    chunker.target_word_count)

\* C1 (amended): every chunk but the last has at most targetWords + overlapWords
\* words (the overlap seed plus the sentence that closed the previous window),
\* unless it holds a single sentence that alone exceeds targetWords. With
\* overlapWords = 0 the bound is targetWords.
C1_BoundIsTargetPlusOverlap ==
    Returned =>
        \A i \in 1..(Len(chunker.chunks) - 1) :
            \/ WordCount(chunker.chunks[i])
                  <= chunker.target_word_count + chunker.overlap_words
            \/ HasOversizedSentence(chunker.chunks[i], chunker.clean_text,
                                    chunker.target_word_count)

\* A chunk that is not the last, seeded with overlap words, holds no oversized
\* sentence and reaches targetWords + overlapWords words.
C1_Witness ==
    /\ Returned
    /\ chunker.overlap_words > 0
    /\ \E i \in 1..(Len(chunker.chunks) - 1) :
          /\ WordCount(chunker.chunks[i])
                = chunker.target_word_count + chunker.overlap_words
          /\ ~HasOversizedSentence(chunker.chunks[i], chunker.clean_text,
                                   chunker.target_word_count)

\* C2: with overlapWords > 0, the last min(overlapWords, wordcount(chunk i))
\* words of chunk i are the leading words of chunk i+1, in order.
C2_OverlapCarried ==
    (Returned /\ chunker.overlap_words > 0) =>
        \A i \in 1..(Len(chunker.chunks) - 1) :
            LET wi == SplitWords(chunker.chunks[i])
                wn == SplitWords(chunker.chunks[i + 1])
                k == IF Len(wi) < chunker.overlap_words
                     THEN Len(wi) ELSE chunker.overlap_words
            IN  /\ Len(wn) >= k
                /\ SubSeq(wn, 1, k) = SubSeq(wi, Len(wi) - k + 1, Len(wi))

\* Two chunks, the first longer than the overlap, its tail different from its head.
C2_Witness ==
    /\ Returned
    /\ chunker.overlap_words > 0
    /\ Len(chunker.chunks) >= 2
    /\ LET wi == SplitWords(chunker.chunks[1])
       IN  /\ Len(wi) > chunker.overlap_words
           /\ wi[1] # wi[Len(wi)]

RECURSIVE IsPartition(_, _)
\* The chunks are the sentences cut into consecutive groups, each group joined
\* by single spaces: every sentence in exactly one chunk, in order.
IsPartition(chunks, sentences) ==
    IF chunks = <<>> THEN sentences = <<>>
    ELSE \E n \in 1..Len(sentences) :
            /\ Join(SubSeq(sentences, 1, n), <<" ">>) = chunks[1]
            /\ IsPartition(Tail(chunks), SubSeq(sentences, n + 1, Len(sentences)))

\* C3: with overlapWords = 0 the chunks, in order, are the non-empty sentences
\* of the text, each in exactly one chunk, no sentence or word repeated or lost.
C3_ChunksPartitionSentences ==
    (Returned /\ chunker.overlap_words = 0) =>
        /\ IsPartition(chunker.chunks, Sentences(chunker.clean_text))
        /\ SplitWords(Join(chunker.chunks, <<" ">>)) = SplitWords(chunker.clean_text)

\* Several chunks, one of them holding more than one sentence.
C3_Witness ==
    /\ Returned
    /\ chunker.overlap_words = 0
    /\ Len(chunker.chunks) >= 2
    /\ Len(Sentences(chunker.clean_text)) > Len(chunker.chunks)

(***************************************************************************)
(* clean_transcript_text                                                   *)
(***************************************************************************)

\* The nine patterns of `placeholders`, in the order of the list.
placeholders ==
    << <<"[", "M", "u", "s", "i", "c", "]">>,
       <<"[", "A", "p", "p", "l", "a", "u", "s", "e", "]">>,
       <<"[", "L", "a", "u", "g", "h", "t", "e", "r", "]">>,
       <<"[", "m", "u", "s", "i", "c", "]">>,
       <<"[", "a", "p", "p", "l", "a", "u", "s", "e", "]">>,
       <<"[", "l", "a", "u", "g", "h", "t", "e", "r", "]">>,
       <<"[", "M", "U", "S", "I", "C", "]">>,
       <<"[", "A", "P", "P", "L", "A", "U", "S", "E", "]">>,
       <<"[", "L", "A", "U", "G", "H", "T", "E", "R", "]">> >>

RECURSIVE RemoveAll(_, _)
\* re.sub(pattern, '', text) for a literal pattern: the non-overlapping
\* occurrences, leftmost first, are removed in one pass.
RemoveAll(text, pattern) ==
    IF Len(text) < Len(pattern) THEN text
    ELSE IF SubSeq(text, 1, Len(pattern)) = pattern
         THEN RemoveAll(SubSeq(text, Len(pattern) + 1, Len(text)), pattern)
         ELSE <<Head(text)>> \o RemoveAll(Tail(text), pattern)

RECURSIVE RemovePlaceholders(_, _)
\* for placeholder in placeholders: text = re.sub(placeholder, '', text)
RemovePlaceholders(text, patterns) ==
    IF patterns = <<>> THEN text
    ELSE RemovePlaceholders(RemoveAll(text, Head(patterns)), Tail(patterns))

RECURSIVE CollapseSpaces(_)
\* re.sub(r' +', ' ', text)
CollapseSpaces(text) ==
    IF text = <<>> THEN <<>>
    ELSE IF Head(text) = " " /\ Len(text) > 1 /\ text[2] = " "
         THEN CollapseSpaces(Tail(text))
         ELSE <<Head(text)>> \o CollapseSpaces(Tail(text))

RECURSIVE CollapseNewlines(_)
\* re.sub(r'\n\n+', '\n\n', text)
CollapseNewlines(text) ==
    IF text = <<>> THEN <<>>
    ELSE IF Head(text) = "\n" /\ Len(text) > 2 /\ text[2] = "\n" /\ text[3] = "\n"
         THEN CollapseNewlines(Tail(text))
         ELSE <<Head(text)>> \o CollapseNewlines(Tail(text))

clean_transcript_text(raw_text) ==
    Strip(CollapseNewlines(CollapseSpaces(RemovePlaceholders(raw_text, placeholders))))

(***************************************************************************)
(* The normalizer run on its own: Init draws the raw text, a concatenation *)
(* of fragments; CleanTranscript applies clean_transcript_text to it and   *)
(* CleanAgain applies it to the result.                                    *)
(***************************************************************************)

MaxFragments == 4

Fragments ==
    { <<"[", "M", "u">>,
      <<"s", "i", "c", "]">>,
      <<"[", "M", "u", "s", "i", "c", "]">>,
      <<"[", "m", "u", "s", "i", "c", "]">>,
      <<"[", "m", "U", "S", "I", "C", "]">>,
      <<" ">>, <<"\n">>, <<"x">> }

RECURSIVE Concat(_)
Concat(parts) == IF parts = <<>> THEN <<>> ELSE Head(parts) \o Concat(Tail(parts))

RawTexts == {Concat(fs) : fs \in UNION {[1..n -> Fragments] : n \in 0..MaxFragments}}

InitClean ==
    /\ cleaner \in [raw_text : RawTexts, pc : {"call"},
                    cleaned : {<<>>}, recleaned : {<<>>}]
    /\ chunker = Idle
    /\ episode = Idle
    /\ output_dir = <<>>
    /\ locator = Idle
    /\ run = Idle
    /\ recorder = Idle
    /\ resolver = Idle

CleanTranscript ==
    /\ cleaner.pc = "call"
    /\ cleaner' = [cleaner EXCEPT !.pc = "cleaned",
                                  !.cleaned = clean_transcript_text(cleaner.raw_text)]
    /\ UNCHANGED <<chunker, episode, output_dir, locator, run, recorder, resolver>>

CleanAgain ==
    /\ cleaner.pc = "cleaned"
    /\ cleaner' = [cleaner EXCEPT !.pc = "recleaned",
                                  !.recleaned = clean_transcript_text(cleaner.cleaned)]
    /\ UNCHANGED <<chunker, episode, output_dir, locator, run, recorder, resolver>>

NextClean == CleanTranscript \/ CleanAgain

SpecClean == InitClean /\ [][NextClean]_vars

(***************************************************************************)
(* Claims about clean_transcript_text (checked under SpecClean)            *)
(***************************************************************************)

\* C4: clean_transcript_text is idempotent: cleaning its own output changes
\* nothing, also when removing a marker joins its neighbours into a marker.
C4_Idempotent ==
    cleaner.pc = "recleaned" => cleaner.recleaned = cleaner.cleaned

\* The words of the bracketed noise markers, lower-cased.
MarkerWords ==
    { <<"m", "u", "s", "i", "c">>,
      <<"a", "p", "p", "l", "a", "u", "s", "e">>,
      <<"l", "a", "u", "g", "h", "t", "e", "r">> }

\* A bracketed music/applause/laughter marker, in any letter casing, starts at i.
MarkerAt(s, i) ==
    \E w \in MarkerWords :
        /\ i + Len(w) + 1 <= Len(s)
        /\ s[i] = "["
        /\ Lower(SubSeq(s, i + 1, i + Len(w))) = w
        /\ s[i + Len(w) + 1] = "]"

\* C5: the output of clean_transcript_text holds no bracketed noise marker in
\* any letter casing, no two consecutive spaces, no three consecutive newlines
\* and no leading or trailing whitespace.
C5_CleanedTextInvariant ==
    cleaner.pc \in {"cleaned", "recleaned"} =>
        LET out == cleaner.cleaned
        IN  /\ \A i \in 1..Len(out) : ~MarkerAt(out, i)
            /\ \A i \in 1..(Len(out) - 1) : ~(out[i] = " " /\ out[i + 1] = " ")
            /\ \A i \in 1..(Len(out) - 2) :
                  ~(out[i] = "\n" /\ out[i + 1] = "\n" /\ out[i + 2] = "\n")
            /\ Strip(out) = out

(***************************************************************************)
(* process_video and download_subtitles_or_audio                           *)
(*                                                                         *)
(* episode.acq is the state of the download: Pending, TryCaptions,         *)
(* TryAudio, Done (a file was returned) or Failed (an exception left       *)
(* download_subtitles_or_audio). episode.trace lists what was attempted.   *)
(* What yt_dlp, the file system and whisper answer is chosen by \E.        *)
(***************************************************************************)

\* process_video is entered with these arguments.
NewEpisode(video_info, use_youtube_subtitles, target_word_count, overlap_words) ==
    [pc |-> "start",
     video_info |-> video_info,
     use_youtube_subtitles |-> use_youtube_subtitles,
     target_word_count |-> target_word_count,
     overlap_words |-> overlap_words,
     acq |-> "Pending",
     trace |-> <<>>,
     download_type |-> "none",
     raw_text |-> <<>>,
     result |-> FALSE]

\* The except clause of process_video: log the error, return False.
ReturnFalse(e) == [e EXCEPT !.pc = "returned", !.result = FALSE]

\* The state the download enters once the video id is known and temp_dir exists.
FirstAttempt(use_youtube_subtitles) ==
    IF use_youtube_subtitles THEN "TryCaptions" ELSE "TryAudio"

\* A caption download that raises ends the download instead of falling back.
AfterCaptionsRaises(outcome) ==
    IF outcome = "ok" THEN "Done"
    ELSE IF outcome = "error" THEN "Failed" ELSE "TryAudio"

\* The state after the caption attempt: the subtitle file exists ("ok"), the
\* download went through and left no file ("absent"), or it raised ("error").
AfterCaptions(outcome) ==
    IF outcome = "ok" THEN "Done" ELSE "TryAudio"

\* The state after the audio attempt: it went through ("ok") or raised ("error").
AfterAudio(outcome) ==
    IF outcome = "ok" THEN "Done" ELSE "Failed"

\* Lines 107-111: the video id is extracted and temp_dir is created.
StartDownload ==
    /\ episode.pc = "start"
    /\ \E mkdir_ok \in BOOLEAN :
          IF ~Truthy(extract_video_id(episode.video_info.url))
          THEN episode' = ReturnFalse([episode EXCEPT !.acq = "Failed",
                                                      !.trace = <<<<"precheck", "no_id">>>>])
          ELSE IF ~mkdir_ok
          THEN episode' = ReturnFalse([episode EXCEPT !.acq = "Failed",
                                                      !.trace = <<<<"precheck", "mkdir_error">>>>])
          ELSE episode' = [episode EXCEPT
                             !.acq = FirstAttempt(episode.use_youtube_subtitles),
                             !.pc = FirstAttempt(episode.use_youtube_subtitles)]
    /\ UNCHANGED <<chunker, cleaner, output_dir, locator, run, recorder, resolver>>

\* Lines 114-137: the subtitles are asked for.
TryCaptions ==
    /\ episode.pc = "TryCaptions"
    /\ \E outcome \in {"ok", "absent", "error"} :
          LET next == AfterCaptions(outcome)
              e == [episode EXCEPT !.acq = next,
                                   !.trace = Append(@, <<"captions", outcome>>)]
          IN  episode' =
                IF next = "Done"
                THEN [e EXCEPT !.pc = "transcript", !.download_type = "subtitles"]
                ELSE IF next = "TryAudio" THEN [e EXCEPT !.pc = "TryAudio"]
                ELSE ReturnFalse(e)
    /\ UNCHANGED <<chunker, cleaner, output_dir, locator, run, recorder, resolver>>

\* Lines 139-160: the audio is asked for.
TryAudio ==
    /\ episode.pc = "TryAudio"
    /\ \E outcome \in {"ok", "error"} :
          LET next == AfterAudio(outcome)
              e == [episode EXCEPT !.acq = next,
                                   !.trace = Append(@, <<"audio", outcome>>)]
          IN  episode' =
                IF next = "Done"
                THEN [e EXCEPT !.pc = "transcript", !.download_type = "audio"]
                ELSE ReturnFalse(e)
    /\ UNCHANGED <<chunker, cleaner, output_dir, locator, run, recorder, resolver>>

\* What parse_subtitles or whisper may return.
RawTranscripts ==
    { <<"[", "M", "u", "s", "i", "c", "]", " ", "A", " ", "a", ".", " ", "B", " ", "b", ".", " ", "C">>,
      <<"x", " ", " ", "y">> }

\* Lines 405-414: the subtitles are read or the audio is transcribed; either raises
\* or returns a text.
GetTranscript ==
    /\ episode.pc = "transcript"
    /\ \/ episode' = ReturnFalse(episode)
       \/ \E text \in RawTranscripts :
             episode' = [episode EXCEPT !.pc = "save", !.raw_text = text]
    /\ UNCHANGED <<chunker, cleaner, output_dir, locator, run, recorder, resolver>>

\* Lines 416-431: the text is cleaned and chunked, the record is built and written
\* (or the write raises).
CleanChunkSave ==
    /\ episode.pc = "save"
    /\ LET cleaned_text == clean_transcript_text(episode.raw_text)
           chunks == split_into_chunks(cleaned_text, episode.target_word_count,
                                       episode.overlap_words)
           episode_data == build_episode_json(episode.video_info, cleaned_text, chunks)
       IN  \/ /\ episode' = ReturnFalse(episode)
              /\ UNCHANGED output_dir
           \/ /\ OutputFile(episode_data.episode_id).found
              /\ episode' = [episode EXCEPT !.pc = "returned", !.result = TRUE]
              /\ output_dir' = save_episode_json(episode_data, output_dir)
    /\ UNCHANGED <<chunker, cleaner, locator, run, recorder, resolver>>

(***************************************************************************)
(* process_video run on one episode: Init draws its arguments.             *)
(***************************************************************************)

Urls ==
    { <<"https://", "youtu.be", "/", "I">>,
      <<"https://", "www.youtube.com", "/", "w", "a", "t", "c", "h", "?", "v", "=", "J">>,
      <<"https://", "www.youtube.com", "/", "e", "m", "b", "e", "d", "/", "I">>,
      <<"https://", "example.com", "/", "I">>,
      <<"https://", "youtu.be", "/">>,
      <<"youtu.be", "/", "I">>,
      <<>> }

Titles ==
    { <<"E", "p", " ", "1">>,
      <<"A", "-", "b", "!">> }

Dates == { <<"2", "0", "2", "4", "-", "1", "2", "-", "0", "5">> }

VideoInfos == [url : Urls, title : Titles, date : Dates]

InitProcessVideo ==
    /\ \E v \in VideoInfos, use \in BOOLEAN : episode = NewEpisode(v, use, 2, 1)
    /\ output_dir = <<>>
    /\ chunker = Idle
    /\ cleaner = Idle
    /\ locator = Idle
    /\ run = Idle
    /\ recorder = Idle
    /\ resolver = Idle

NextProcessVideo ==
    StartDownload \/ TryCaptions \/ TryAudio \/ GetTranscript \/ CleanChunkSave

SpecProcessVideo == InitProcessVideo /\ [][NextProcessVideo]_vars

(***************************************************************************)
(* Claims about transcript acquisition (checked under SpecProcessVideo)    *)
(***************************************************************************)

Last(t) == t[Len(t)]

Front(t) == SubSeq(t, 1, Len(t) - 1)

CaptionFailures == {<<"captions", "absent">>, <<"captions", "error">>}

AudioTried(t) == \E i \in 1..Len(t) : t[i][1] = "audio"

\* What was attempted before the audio download may start: the captions, failed
\* or absent, when they are enabled; nothing when they are not.
ReadyForAudio(t, use_youtube_subtitles) ==
    IF use_youtube_subtitles
    THEN Len(t) = 1 /\ t[1] \in CaptionFailures
    ELSE t = <<>>

\* C6 as stated: captions first when enabled, a caption failure or absence
\* leads to the audio attempt, and the episode ends failed only when the
\* caption path was disabled or failed and the audio download failed: no
\* episode fails without the audio download having been attempted.
C6_FailsOnlyAfterAudio ==
    LET t == episode.trace
        use == episode.use_youtube_subtitles
    IN  episode.pc # "idle" =>
          /\ episode.acq = "TryCaptions" => use /\ t = <<>>
          /\ episode.acq = "TryAudio" => ReadyForAudio(t, use)
          /\ episode.acq = "Failed" =>
                /\ AudioTried(t)
                /\ Last(t) = <<"audio", "error">>
                /\ ReadyForAudio(Front(t), use)
          /\ (episode.pc = "returned" /\ ~episode.result) => AudioTried(t)

\* C6 (amended): the download follows TryCaptions -> (Done | TryAudio) ->
\* (Done | Failed), captions first when enabled, and it fails only (i) before
\* any attempt, when the URL yields no video identifier or the working
\* directory cannot be created, or (ii) when the captions were disabled,
\* failed or absent and the audio download then failed. An episode that
\* returns False has a download that failed in one of these two ways, or a
\* download that was done and a later step (reading the captions,
\* transcribing, saving) that raised.
C6_AcquisitionSequence ==
    LET t == episode.trace
        use == episode.use_youtube_subtitles
        has_id == Truthy(extract_video_id(episode.video_info.url))
    IN  episode.pc # "idle" =>
          /\ episode.acq = "Pending" => t = <<>> /\ episode.pc = "start"
          /\ episode.acq = "TryCaptions" => use /\ t = <<>> /\ has_id
          /\ episode.acq = "TryAudio" => ReadyForAudio(t, use) /\ has_id
          /\ episode.acq = "Done" =>
                /\ has_id
                /\ \/ use /\ t = << <<"captions", "ok">> >>
                   \/ Last(t) = <<"audio", "ok">> /\ ReadyForAudio(Front(t), use)
          /\ episode.acq = "Failed" =>
                \/ ~has_id /\ t = << <<"precheck", "no_id">> >>
                \/ has_id /\ t = << <<"precheck", "mkdir_error">> >>
                \/ /\ has_id
                   /\ Last(t) = <<"audio", "error">>
                   /\ ReadyForAudio(Front(t), use)
          /\ (episode.pc = "returned" /\ ~episode.result) =>
                episode.acq \in {"Failed", "Done"}
          /\ (episode.pc = "returned" /\ episode.result) => episode.acq = "Done"

\* The whole chain: the captions were tried and raised, the audio was tried and
\* raised, the download failed and process_video returned False.
C6_Witness ==
    /\ episode.pc = "returned"
    /\ ~episode.result
    /\ episode.acq = "Failed"
    /\ episode.trace = << <<"captions", "error">>, <<"audio", "error">> >>

(***************************************************************************)
(* parse_romanian_date                                                     *)
(***************************************************************************)

\* The keys of ROMANIAN_MONTHS; the value of a key is its position.
ROMANIAN_MONTHS ==
    << <<"i", "a", "n", "u", "a", "r", "i", "e">>,
       <<"f", "e", "b", "r", "u", "a", "r", "i", "e">>,
       <<"m", "a", "r", "t", "i", "e">>,
       <<"a", "p", "r", "i", "l", "i", "e">>,
       <<"m", "a", "i">>,
       <<"i", "u", "n", "i", "e">>,
       <<"i", "u", "l", "i", "e">>,
       <<"a", "u", "g", "u", "s", "t">>,
       <<"s", "e", "p", "t", "e", "m", "b", "r", "i", "e">>,
       <<"o", "c", "t", "o", "m", "b", "r", "i", "e">>,
       <<"n", "o", "i", "e", "m", "b", "r", "i", "e">>,
       <<"d", "e", "c", "e", "m", "b", "r", "i", "e">> >>

DigitValue(c) == CHOOSE d \in 0..9 : <<"0", "1", "2", "3", "4", "5", "6", "7", "8", "9">>[d + 1] = c

DigitChar(d) == <<"0", "1", "2", "3", "4", "5", "6", "7", "8", "9">>[d + 1]

RECURSIVE DigitsValue(_, _)
DigitsValue(s, acc) ==
    IF s = <<>> THEN acc
    ELSE IF Head(s) = "_" THEN DigitsValue(Tail(s), acc)
    ELSE DigitsValue(Tail(s), 10 * acc + DigitValue(Head(s)))

\* The digits of a numeral without its underscores and leading zeros.
Significant(body) ==
    LET digits == SelectSeq(body, LAMBDA c : c # "_")
        nonzero == {i \in 1..Len(digits) : digits[i] # "0"}
    IN  IF nonzero = {} THEN <<>> ELSE SubSeq(digits, MinOf(nonzero), Len(digits))

RECURSIVE DigitsGreater(_, _)
\* a > b for two numerals of the same length.
DigitsGreater(a, b) ==
    IF a = <<>> THEN FALSE
    ELSE IF Head(a) # Head(b) THEN DigitValue(Head(a)) > DigitValue(Head(b))
    ELSE DigitsGreater(Tail(a), Tail(b))

\* The largest C int, 2^31 - 1, and the magnitude of the smallest, 2^31.
INT_MAX == <<"2", "1", "4", "7", "4", "8", "3", "6", "4", "7">>

INT_MIN_MAGNITUDE == <<"2", "1", "4", "7", "4", "8", "3", "6", "4", "8">>

\* The numeral is within the given limit.
AtMost(digits, limit) ==
    \/ Len(digits) < Len(limit)
    \/ Len(digits) = Len(limit) /\ ~DigitsGreater(digits, limit)

\* int(day_str): an optional sign, then digits, single underscores allowed
\* between digits. ok is FALSE where int() raises ValueError. A Python int has
\* no bound; fits says that it can be passed as a C int, which datetime()
\* requires of its arguments, and value is the number when it fits.
ParseInt(s) ==
    LET signed == s # <<>> /\ s[1] \in {"+", "-"}
        negative == signed /\ s[1] = "-"
        body == IF signed THEN Tail(s) ELSE s
        ok == /\ body # <<>>
              /\ \A i \in 1..Len(body) : body[i] \in Digits \cup {"_"}
              /\ body[1] # "_"
              /\ body[Len(body)] # "_"
              /\ \A i \in 1..(Len(body) - 1) : ~(body[i] = "_" /\ body[i + 1] = "_")
        fits == ok /\ AtMost(Significant(body), INT_MAX)
    IN  [ok |-> ok,
         fits |-> \/ fits
                  \/ ok /\ negative /\ Significant(body) = INT_MIN_MAGNITUDE,
         value |-> IF fits
                   THEN (IF negative THEN 0 - DigitsValue(body, 0)
                         ELSE DigitsValue(body, 0))
                   ELSE IF ok /\ negative /\ Significant(body) = INT_MIN_MAGNITUDE
                   THEN 0 - 2147483647 - 1
                   ELSE 0]

IsLeap(year) == (year % 4 = 0 /\ year % 100 # 0) \/ year % 400 = 0

DaysInMonth(year, month) ==
    IF month = 2 THEN (IF IsLeap(year) THEN 29 ELSE 28)
    ELSE IF month \in {4, 6, 9, 11} THEN 30 ELSE 31

\* datetime(year, month, day) does not raise ValueError.
ValidDate(year, month, day) ==
    /\ year >= 1 /\ year <= 9999
    /\ month >= 1 /\ month <= 12
    /\ day >= 1 /\ day <= DaysInMonth(year, month)

\* n written with at least `width` digits, zero-padded.
RECURSIVE Padded(_, _)
Padded(n, width) ==
    IF width <= 1 /\ n < 10 THEN <<DigitChar(n)>>
    ELSE Padded(n \div 10, width - 1) \o <<DigitChar(n % 10)>>

\* date_obj.strftime('%Y-%m-%d'), for the years of four digits.
FormatDate(year, month, day) ==
    Padded(year, 4) \o <<"-">> \o Padded(month, 2) \o <<"-">> \o Padded(day, 2)

\* What parse_romanian_date leaves with when datetime() raises OverflowError,
\* which its except clause (ValueError, IndexError) does not catch.
OverflowRaised == <<"<OverflowError>">>

parse_romanian_date(date_str, year) ==
    LET parts == SplitWords(Strip(date_str))
        day == ParseInt(parts[1])
        typed == Lower(parts[2])
        month_str == IF typed = <<"o", "c", "r", "o", "m", "b", "r", "i", "e">>
                     THEN <<"o", "c", "t", "o", "m", "b", "r", "i", "e">>
                     ELSE typed
        known == \E m \in 1..12 : ROMANIAN_MONTHS[m] = month_str
        month == CHOOSE m \in 1..12 : ROMANIAN_MONTHS[m] = month_str
    IN  IF Len(parts) # 2 THEN NoneValue
        ELSE IF ~day.ok THEN NoneValue
        ELSE IF ~known THEN NoneValue
        ELSE IF ~day.fits THEN OverflowRaised
        ELSE IF ~ValidDate(year, month, day.value) THEN NoneValue
        ELSE FormatDate(year, month, day.value)

(***************************************************************************)
(* search_youtube_for_video, find_video_for_date                           *)
(***************************************************************************)

\* The number of results find_video_for_date asks for.
max_results == 3

\* The four queries, in the order of search_patterns; the fixed text before
\* the date is one atom.
search_patterns(date_str) ==
    << <<"Prea Mult Banciu - ">> \o date_str,
       <<"PreaMultBanciu - ">> \o date_str,
       <<"Prea Mult Banciu ">> \o date_str,
       <<"PreaMultBanciu ">> \o date_str >>

\* The string `needle` occurs in `hay` (Python's `in` on two strings).
Contains(hay, needle) ==
    \E k \in 0..(Len(hay) - Len(needle)) : SubSeq(hay, k + 1, k + Len(needle)) = needle

\* The title is compared as it is written.
TitleMatchesCaseSensitive(date_str, title) == Contains(title, date_str)

\* date_str.lower() in title.lower()
TitleMatches(date_str, title) == Contains(Lower(title), Lower(date_str))

\* An entry that is None.
NoneEntry == [none |-> TRUE]

\* What find_video_for_date returns when it returns None.
NoVideo == [found |-> FALSE]

RECURSIVE EntriesToResults(_)
\* The loop over search_results['entries']: a None entry is skipped, a missing
\* title reads 'Unknown'.
EntriesToResults(entries) ==
    IF entries = <<>> THEN <<>>
    ELSE IF Head(entries) = NoneEntry THEN EntriesToResults(Tail(entries))
    ELSE << [url |-> <<"https://", "www.youtube.com">> \o <<"/", "w", "a", "t", "c", "h", "?", "v", "=">> \o Head(entries).id,
             title |-> IF "title" \in DOMAIN Head(entries)
                       THEN Head(entries).title
                       ELSE <<"U", "n", "k", "n", "o", "w", "n">>,
             upload_date |-> <<>>] >> \o EntriesToResults(Tail(entries))

\* What search_youtube_for_video returns for what yt_dlp answered: when
\* extract_info raised, the error is logged and the empty list is returned.
search_youtube_for_video(answer) ==
    IF answer.raised THEN <<>> ELSE EntriesToResults(answer.entries)

\* The first result of the list whose title holds the date phrase, 0 if none.
FirstMatch(date_str, results) ==
    IF \E i \in 1..Len(results) : TitleMatches(date_str, results[i].title)
    THEN MinOf({i \in 1..Len(results) : TitleMatches(date_str, results[i].title)})
    ELSE 0

\* The most entries one answer lists in the model (yt_dlp lists at most max_results).
MaxEntries == 2

\* The entries yt_dlp may list: a dict with id and title, a dict without a
\* title, or None.
Entries ==
    { [id |-> <<"I">>, title |-> <<"x", " ", "5", " ", "M", "A", "I">>],
      [id |-> <<"J">>, title |-> <<"5", " ", "M", "a", "i", " ", "5", " ", "I", "u", "n", "i", "e">>],
      [id |-> <<"K">>, title |-> <<"5", " ", "I", "u", "n", "i", "e">>],
      [id |-> <<"L">>],
      NoneEntry }

\* What yt_dlp may answer to one query: extract_info raises, or lists entries.
Answers ==
    {[raised |-> TRUE, entries |-> <<>>]}
        \cup {[raised |-> FALSE, entries |-> e] :
                 e \in UNION {[1..n -> Entries] :
                                 n \in 0..MinOf({MaxEntries, max_results})}}

\* Lines 154-160: the date is parsed; an unparseable date returns None at once.
ParseDate ==
    /\ locator.pc = "parse"
    /\ LET standard_date == parse_romanian_date(locator.date_str, locator.year)
       IN  locator' = IF standard_date = OverflowRaised
                      THEN [locator EXCEPT !.pc = "raised"]
                      ELSE IF standard_date = NoneValue
                      THEN [locator EXCEPT !.pc = "returned", !.result = NoVideo]
                      ELSE [locator EXCEPT !.pc = "search",
                                           !.standard_date = standard_date]
    /\ UNCHANGED <<chunker, cleaner, episode, output_dir, run, recorder, resolver>>

\* Lines 170-185: one pass of the loop over search_patterns: the query is
\* issued, yt_dlp answers, the results are scanned for the date phrase.
SearchPattern ==
    /\ locator.pc = "search"
    /\ locator.idx <= Len(search_patterns(locator.date_str))
    /\ \E answer \in Answers :
          LET results == search_youtube_for_video(answer)
              hit == FirstMatch(locator.date_str, results)
              asked == [locator EXCEPT
                          !.queries = Append(@, search_patterns(locator.date_str)[locator.idx]),
                          !.responses = Append(@, results)]
          IN  locator' =
                IF hit # 0
                THEN [asked EXCEPT !.pc = "returned",
                                   !.result = [found |-> TRUE,
                                               url |-> results[hit].url,
                                               title |-> results[hit].title,
                                               date |-> locator.standard_date]]
                ELSE [asked EXCEPT !.idx = @ + 1]
    /\ UNCHANGED <<chunker, cleaner, episode, output_dir, run, recorder, resolver>>

\* Lines 187-188: every pattern was tried and nothing matched.
NotFound ==
    /\ locator.pc = "search"
    /\ locator.idx > Len(search_patterns(locator.date_str))
    /\ locator' = [locator EXCEPT !.pc = "returned", !.result = NoVideo]
    /\ UNCHANGED <<chunker, cleaner, episode, output_dir, run, recorder, resolver>>

(***************************************************************************)
(* find_video_for_date run on one date phrase: Init draws the phrase; what *)
(* yt_dlp answers to each query is drawn when the query is issued.         *)
(***************************************************************************)

DatePhrases ==
    { <<"2", "1", "4", "7", "4", "8", "3", "6", "4", "8", " ", "M", "a", "i">>,
      <<"5", " ", "M", "a", "i">>,
      <<"5", " ", "I", "u", "n", "i", "e">>,
      <<"3", "1", " ", "I", "u", "n", "i", "e">>,
      <<"M", "a", "i">>,
      <<"5", " ", "M", "a", "o">> }

InitFind ==
    /\ locator \in [pc : {"parse"}, date_str : DatePhrases, year : {2024},
                    standard_date : {NoneValue}, idx : {1},
                    queries : {<<>>}, responses : {<<>>}, result : {NoVideo}]
    /\ chunker = Idle
    /\ cleaner = Idle
    /\ episode = Idle
    /\ output_dir = <<>>
    /\ run = Idle
    /\ recorder = Idle
    /\ resolver = Idle

NextFind == ParseDate \/ SearchPattern \/ NotFound

SpecFind == InitFind /\ [][NextFind]_vars

(***************************************************************************)
(* Claims about find_video_for_date (checked under SpecFind)               *)
(***************************************************************************)

\* The title holds the date phrase, letter case apart.
PhraseInTitle(phrase, title) ==
    \E k \in 0..(Len(title) - Len(phrase)) :
        \A j \in 1..Len(phrase) : LowerChar(title[k + j]) = LowerChar(phrase[j])

HasMatch(phrase, results) ==
    \E i \in 1..Len(results) : PhraseInTitle(phrase, results[i].title)

DictRow(fieldnames, cells) ==
    [key \in {fieldnames[i] : i \in 1..Len(fieldnames)} |->
        LET i == MaxOf({j \in 1..Len(fieldnames) : fieldnames[j] = key})
        IN  IF i <= Len(cells) THEN cells[i] ELSE NoneValue]

\* Line 49: the three keys are in the row.
HasRequiredFields(row) == {"url", "title", "date"} \subseteq DOMAIN row

\* Lines 52-56: None has no strip(), the call raises AttributeError.
StripRaises(row) == \E key \in {"url", "title", "date"} : row[key] = NoneValue

\* Lines 48-56: the loop over the reader.  acc holds the videos appended and
\* the warnings logged so far; an exception leaves the function at once.
RECURSIVE LoadRows(_, _, _)
LoadRows(fieldnames, lines, acc) ==
    IF lines = <<>> THEN acc
    ELSE IF Head(lines) = <<>> THEN LoadRows(fieldnames, Tail(lines), acc)
    ELSE LET row == DictRow(fieldnames, Head(lines))
         IN  IF ~HasRequiredFields(row)
             THEN LoadRows(fieldnames, Tail(lines),
                           [acc EXCEPT !.warnings = @ + 1])
             ELSE IF StripRaises(row)
             THEN [acc EXCEPT !.raised = TRUE, !.videos = <<>>]
             ELSE LoadRows(fieldnames, Tail(lines),
                           [acc EXCEPT !.videos =
                               Append(@, [url |-> Strip(row.url),
                                          title |-> Strip(row.title),
                                          date |-> Strip(row.date)])])

\* The file is its header line and its data lines, each line its cells.
load_video_list(input_file) ==
    IF ~input_file.exists
    THEN [raised |-> TRUE, videos |-> <<>>, warnings |-> 0]
    ELSE LoadRows(input_file.fieldnames, input_file.lines,
                  [raised |-> FALSE, videos |-> <<>>, warnings |-> 0])

\* videos[:n]
SliceTo(videos, n) ==
    SubSeq(videos, 1, IF n >= 0 THEN MinOf({n, Len(videos)})
                      ELSE MaxOf({Len(videos) + n, 0}))

\* Lines 505-508: --max-videos, when given and not zero, cuts the list.
LimitVideos(videos, max_videos) ==
    IF max_videos.given /\ max_videos.value # 0
    THEN SliceTo(videos, max_videos.value)
    ELSE videos

\* A loop that gives up at the first episode that fails.
TallyStopsAtFailure(r, success) ==
    IF success
    THEN [r EXCEPT !.success_count = @ + 1, !.idx = @ + 1]
    ELSE [r EXCEPT !.failure_count = @ + 1, !.idx = Len(r.videos) + 1]

\* Lines 523-526: one of the counters goes up, the loop goes on.
Tally(r, success) ==
    IF success
    THEN [r EXCEPT !.success_count = @ + 1, !.idx = @ + 1]
    ELSE [r EXCEPT !.failure_count = @ + 1, !.idx = @ + 1]

\* Lines 494-508: the list is loaded; the run ends with status 1 when that
\* raises or the list is empty, otherwise the list is cut to --max-videos.
LoadVideoList ==
    /\ run.pc = "load"
    /\ LET loaded == load_video_list(run.input_file)
       IN  run' = IF loaded.raised \/ loaded.videos = <<>>
                  THEN [run EXCEPT !.pc = "exited", !.exit_status = 1,
                                   !.load_raised = loaded.raised,
                                   !.loaded = loaded.videos,
                                   !.warnings = loaded.warnings]
                  ELSE [run EXCEPT !.pc = "loop",
                                   !.load_raised = loaded.raised,
                                   !.loaded = loaded.videos,
                                   !.warnings = loaded.warnings,
                                   !.videos = LimitVideos(loaded.videos,
                                                          run.max_videos)]
    /\ UNCHANGED <<chunker, cleaner, episode, output_dir, locator, recorder, resolver>>

\* Lines 514-522: process_video is called on the next video; the command line
\* cannot turn use_youtube_subtitles off (store_true with default=True).
StartProcessVideo ==
    /\ run.pc = "loop"
    /\ run.idx <= Len(run.videos)
    /\ episode' = NewEpisode(run.videos[run.idx], TRUE,
                             run.target_word_count, run.overlap_words)
    /\ run' = [run EXCEPT !.pc = "episode",
                          !.calls = Append(@, run.videos[run.idx])]
    /\ UNCHANGED <<chunker, cleaner, output_dir, locator, recorder, resolver>>

\* Lines 523-526: process_video has returned.
CountResult ==
    /\ run.pc = "episode"
    /\ episode.pc = "returned"
    /\ run' = [Tally(run, episode.result) EXCEPT
                 !.pc = "loop", !.results = Append(@, episode.result)]
    /\ episode' = Idle
    /\ UNCHANGED <<chunker, cleaner, output_dir, locator, recorder, resolver>>

\* Lines 530-536: the list is exhausted, the tally is logged and main returns.
Summary ==
    /\ run.pc = "loop"
    /\ run.idx > Len(run.videos)
    /\ run' = [run EXCEPT !.pc = "exited", !.exit_status = 0]
    /\ UNCHANGED <<chunker, cleaner, episode, output_dir, locator, recorder, resolver>>

(***************************************************************************)
(* main run on an input file: Init draws the file and --max-videos.        *)
(***************************************************************************)

MaxLines == 2

FieldNames == { <<"url", "title", "date">>, <<"url", "title">> }

Lines ==
    { <<>>,
      << <<"https://", "youtu.be", "/", "I">>, <<" ", "E", "p", " ", "1">>, <<"2", "0", "2", "4", "-", "1", "2", "-", "0", "5">> >>,
      << <<"https://", "example.com", "/", "I">>, <<"A", "-", "b", "!">>, <<"2", "0", "2", "4", "-", "1", "2", "-", "0", "5">> >>,
      << <<"https://", "youtu.be", "/", "I">>, <<"E", "p", " ", "1">> >>,
      << <<"https://", "www.youtube.com", "/", "w", "a", "t", "c", "h", "?", "v", "=", "J">>,
         <<"E", "p", " ", "1">>, <<"2", "0", "2", "4", "-", "1", "2", "-", "0", "5">>, <<"x">> >> }

InputFiles ==
    [exists : BOOLEAN, fieldnames : FieldNames,
     lines : UNION {[1..n -> Lines] : n \in 0..MaxLines}]

MaxVideosArgs ==
    { [given |-> FALSE, value |-> 0] } \cup [given : {TRUE}, value : {-1, 0, 1}]

InitMain ==
    /\ \E f \in InputFiles, m \in MaxVideosArgs :
          /\ ~f.exists => f.lines = <<>> /\ f.fieldnames = <<"url", "title", "date">>
          /\ run = [pc |-> "load", input_file |-> f, max_videos |-> m,
                    target_word_count |-> 2, overlap_words |-> 1,
                    load_raised |-> FALSE, loaded |-> <<>>, warnings |-> 0,
                    videos |-> <<>>, idx |-> 1, calls |-> <<>>, results |-> <<>>,
                    success_count |-> 0, failure_count |-> 0, exit_status |-> 0]
    /\ episode = Idle
    /\ output_dir = <<>>
    /\ chunker = Idle
    /\ cleaner = Idle
    /\ locator = Idle
    /\ recorder = Idle
    /\ resolver = Idle

NextMain ==
    \/ LoadVideoList
    \/ StartProcessVideo
    \/ StartDownload
    \/ TryCaptions
    \/ TryAudio
    \/ GetTranscript
    \/ CleanChunkSave
    \/ CountResult
    \/ Summary

SpecMain == InitMain /\ [][NextMain]_vars

(***************************************************************************)
(* Claims about main and load_video_list (checked under SpecMain)          *)
(***************************************************************************)

\* C8: a run in which process_video was called and returned False every time,
\* so that no episode is processed successfully, ends with a non-zero exit
\* status.
C8_ZeroSuccessExitsNonZero ==
    (run.pc = "exited" /\ run.calls # <<>> /\ run.success_count = 0)
        => run.exit_status # 0

CountOf(results, b) == Cardinality({i \in 1..Len(results) : results[i] = b})

\* C9: the episodes of the (cut) list are handed to process_video once each, in
\* input order, whatever the earlier ones returned; each return raises
\* exactly one of the two counters; and when the loop is over
\* successes + failures = the number of episodes in the list.
C9_EveryEpisodeTallied ==
    run.pc \in {"loop", "episode", "exited"} =>
        /\ Len(run.calls) <= Len(run.videos)
        /\ run.calls = SubSeq(run.videos, 1, Len(run.calls))
        /\ Len(run.results) = Len(run.calls) - (IF run.pc = "episode" THEN 1 ELSE 0)
        /\ run.success_count = CountOf(run.results, TRUE)
        /\ run.failure_count = CountOf(run.results, FALSE)
        /\ run.success_count + run.failure_count = Len(run.results)
        /\ (run.pc = "exited" /\ run.exit_status = 0) =>
              /\ run.calls = run.videos
              /\ run.success_count + run.failure_count = Len(run.videos)

\* A finished run whose first episode failed and whose second succeeded.
C9_Witness ==
    /\ run.pc = "exited"
    /\ run.results = <<FALSE, TRUE>>
    /\ run.failure_count = 1
    /\ run.success_count = 1

\* The line has no cell under one of the three required columns.
LacksField(fieldnames, cells) ==
    \E key \in {"url", "title", "date"} :
        \A i \in 1..MinOf({Len(fieldnames), Len(cells)}) : fieldnames[i] # key

RECURSIVE WellFormedVideos(_, _)
WellFormedVideos(fieldnames, lines) ==
    IF lines = <<>> THEN <<>>
    ELSE IF Head(lines) = <<>> \/ LacksField(fieldnames, Head(lines))
    THEN WellFormedVideos(fieldnames, Tail(lines))
    ELSE <<[key \in {"url", "title", "date"} |->
              Strip(Head(lines)[CHOOSE i \in 1..Len(Head(lines)) :
                                    fieldnames[i] = key])]>>
         \o WellFormedVideos(fieldnames, Tail(lines))

\* C10: loading an existing file never aborts on a malformed line: every line
\* that lacks a required field (a line shorter than the header included) is
\* skipped with one warning, and all the other lines are loaded.
C10_MalformedRowsSkipped ==
    LET f == run.input_file
    IN  (run.pc \in {"loop", "episode", "exited"} /\ f.exists) =>
           /\ ~run.load_raised
           /\ run.loaded = WellFormedVideos(f.fieldnames, f.lines)
           /\ run.warnings =
                 Cardinality({i \in 1..Len(f.lines) :
                                 /\ f.lines[i] # <<>>
                                 /\ LacksField(f.fieldnames, f.lines[i])})

(***************************************************************************)
(* build_episode_json + save_episode_json run again and again on one       *)
(* output directory: each step draws an episode and its cleaned text.      *)
(***************************************************************************)

MaxRuns == 3

PersistUrls ==
    { <<"https://", "youtu.be", "/", "I">>,
      <<"https://", "youtu.be", "/", ".", "/", "I">>,
      <<"https://", "youtu.be", "/", ".", ".", "/", "I">>,
      <<"https://", "youtu.be", "/", "/", "I">>,
      <<"https://", "youtu.be", "/", "I", "/", "J">>,
      <<"https://", "www.youtube.com", "/", "e", "m", "b", "e", "d", "/", "J">>,
      <<"https://", "example.com", "/", "I">> }

PersistVideos == [url : PersistUrls, title : {<<"E", "p", " ", "1">>}, date : Dates]

CleanedTexts == { <<"A", " ", "a", ".", " ", "B", " ", "b", ".">>, <<"x">> }

\* Lines 427-431 of process_video: the record is built and written, or the
\* write raises and nothing is written.
BuildAndSave ==
    /\ recorder.pc = "ready"
    /\ Len(recorder.runs) < MaxRuns
    /\ \E video_info \in PersistVideos, cleaned_text \in CleanedTexts :
          LET chunks == split_into_chunks(cleaned_text, 2, 1)
              episode_data == build_episode_json(video_info, cleaned_text, chunks)
              this == [video_info |-> video_info, cleaned_text |-> cleaned_text,
                       chunks |-> chunks, episode_data |-> episode_data,
                       saved |-> FALSE]
          IN  \/ /\ recorder' = [recorder EXCEPT
                                   !.runs = Append(@, [this EXCEPT !.saved = FALSE]),
                                   !.before = output_dir]
                 /\ UNCHANGED output_dir
              \/ /\ OutputFile(episode_data.episode_id).found
                 /\ recorder' = [recorder EXCEPT
                                   !.runs = Append(@, [this EXCEPT !.saved = TRUE]),
                                   !.before = output_dir]
                 /\ output_dir' = save_episode_json(episode_data, output_dir)
    /\ UNCHANGED <<chunker, cleaner, episode, locator, run, resolver>>

InitPersist ==
    /\ recorder = [pc |-> "ready", runs |-> <<>>, before |-> <<>>]
    /\ output_dir = <<>>
    /\ chunker = Idle
    /\ cleaner = Idle
    /\ episode = Idle
    /\ locator = Idle
    /\ run = Idle
    /\ resolver = Idle

NextPersist == BuildAndSave

SpecPersist == InitPersist /\ [][NextPersist]_vars

(***************************************************************************)
(* Claims about persisting (checked under SpecPersist)                     *)
(***************************************************************************)

SavedRuns == {i \in 1..Len(recorder.runs) : recorder.runs[i].saved}

SavedIds == {recorder.runs[i].episode_data.episode_id : i \in SavedRuns}

\* The artifact of an episode: the file of output_dir named by its id.
ArtifactOf(episode_id) == Append(OutputDirPath, FileName(episode_id))

\* C11: after any sequence of successful runs the output directory holds
\* exactly one artifact for each distinct episode id saved, named by that id,
\* holding what the latest run on that id built; and a run on the same
\* episode, text and chunks as the run before it leaves every file as it was.
C11_OneArtifactPerEpisode ==
    recorder.pc = "ready" =>
        /\ DOMAIN output_dir = {ArtifactOf(id) : id \in SavedIds}
        /\ \A i \in SavedRuns :
              (\A j \in SavedRuns : j > i =>
                  recorder.runs[j].episode_data.episode_id
                      # recorder.runs[i].episode_data.episode_id)
                 => output_dir[ArtifactOf(recorder.runs[i].episode_data.episode_id)]
                       = recorder.runs[i].episode_data
        /\ \A i \in SavedRuns :
              (i = Len(recorder.runs) /\ i - 1 \in SavedRuns
                  /\ recorder.runs[i] = recorder.runs[i - 1])
                 => output_dir = recorder.before

(***************************************************************************)
(* parse_romanian_date run on its own: Init draws the phrase and the year. *)
(***************************************************************************)

MaxTokens == 3

DayTokens ==
    { <<"5">>, <<"0", "5">>, <<"+", "5">>, <<"-", "5">>, <<"1", "_", "0">>,
      <<"0">>, <<"2", "9">>, <<"3", "0">>, <<"3", "1">>, <<"3", "2">>,
      <<"5", "x">>, <<"_", "5">>,
      <<"2", "1", "4", "7", "4", "8", "3", "6", "4", "7">>,
      <<"2", "1", "4", "7", "4", "8", "3", "6", "4", "8">>,
      <<"-", "2", "1", "4", "7", "4", "8", "3", "6", "4", "8">>,
      <<"-", "2", "1", "4", "7", "4", "8", "3", "6", "4", "9">>,
      <<"0", "0", "0", "0", "0", "0", "0", "0", "0", "0", "5">> }

MonthTokens ==
    { <<"M", "a", "i">>, <<"m", "a", "i">>, <<"M", "A", "I">>,
      <<"F", "e", "b", "r", "u", "a", "r", "i", "e">>,
      <<"A", "p", "r", "i", "l", "i", "e">>,
      <<"O", "c", "r", "o", "m", "b", "r", "i", "e">>,
      <<"O", "c", "t", "o", "m", "b", "r", "i", "e">>,
      <<"M", "a", "y">> }

Tokens == DayTokens \cup MonthTokens

\* What separates and surrounds the tokens of a phrase.
Gaps == { <<" ">>, <<" ", "\n", " ">> }

RECURSIVE Phrase(_, _)
Phrase(tokens, gap) ==
    IF tokens = <<>> THEN <<>>
    ELSE IF Len(tokens) = 1 THEN Head(tokens)
    ELSE Head(tokens) \o gap \o Phrase(Tail(tokens), gap)

\* The tokens a phrase may go on with after its second.
MoreTokens == { <<"5">>, <<"M", "a", "i">> }

\* Up to two tokens of any kind, then more tokens up to MaxTokens in all.
TokenLists ==
    { first \o more :
        first \in UNION {[1..n -> Tokens] : n \in 0..2},
        more \in UNION {[1..n -> MoreTokens] : n \in 0..(MaxTokens - 2)} }

Years == {2023, 2024}

InitParseDate ==
    /\ \E tokens \in TokenLists, gap \in Gaps, padded \in BOOLEAN, year \in Years :
          resolver = [pc |-> "call",
                      date_str |-> IF padded THEN <<" ">> \o Phrase(tokens, gap) \o <<"\n">>
                                   ELSE Phrase(tokens, gap),
                      year |-> year,
                      raised |-> FALSE,
                      result |-> NoneValue]
    /\ chunker = Idle
    /\ cleaner = Idle
    /\ episode = Idle
    /\ output_dir = <<>>
    /\ locator = Idle
    /\ run = Idle
    /\ recorder = Idle

\* Lines 49-86: the call returns a date or None, or leaves with OverflowError.
ParseRomanianDate ==
    /\ resolver.pc = "call"
    /\ LET result == parse_romanian_date(resolver.date_str, resolver.year)
       IN  resolver' = IF result = OverflowRaised
                       THEN [resolver EXCEPT !.pc = "raised", !.raised = TRUE]
                       ELSE [resolver EXCEPT !.pc = "returned", !.result = result]
    /\ UNCHANGED <<chunker, cleaner, episode, output_dir, locator, run, recorder>>

NextParseDate == ParseRomanianDate

SpecParseDate == InitParseDate /\ [][NextParseDate]_vars

(***************************************************************************)
(* Claims about parse_romanian_date (checked under SpecParseDate)          *)
(***************************************************************************)

\* The tokens of a phrase: its maximal runs of non-whitespace characters.
TokensOf(date_str) ==
    LET starts == {i \in 1..Len(date_str) :
                      /\ date_str[i] \notin WhiteSpace
                      /\ (i = 1 \/ date_str[i - 1] \in WhiteSpace)}
        EndOf(i) == MinOf({j \in i..Len(date_str) :
                              j = Len(date_str) \/ date_str[j + 1] \in WhiteSpace})
        Nth(k) == CHOOSE i \in starts : Cardinality({j \in starts : j < i}) = k - 1
    IN  [k \in 1..Cardinality(starts) |-> SubSeq(date_str, Nth(k), EndOf(Nth(k)))]

\* The numbers 1..31 a day token can stand for: a numeral int() accepts, of at
\* most two significant digits; 0 for every other token.
DayOf(token) ==
    LET day == ParseInt(token)
    IN  IF day.ok /\ Len(Significant(IF token[1] \in {"+", "-"} THEN Tail(token) ELSE token)) <= 2
        THEN day.value ELSE 0

\* The number of the month a token names, letter case apart and the typo
\* "ocrombrie" corrected; 0 when it names none.
MonthOf(token) ==
    LET name == [i \in 1..Len(token) |-> LowerChar(token[i])]
        months == {m \in 1..12 :
                      \/ ROMANIAN_MONTHS[m] = name
                      \/ m = 10 /\ name = <<"o", "c", "r", "o", "m", "b", "r", "i", "e">>}
    IN  IF months = {} THEN 0 ELSE CHOOSE m \in months : TRUE

MonthLengths(year) ==
    <<31, IF year % 4 = 0 /\ (year % 100 # 0 \/ year % 400 = 0) THEN 29 ELSE 28,
      31, 30, 31, 30, 31, 31, 30, 31, 30, 31>>

\* The phrase is a day and a month name that form a date of the year.
IsCalendarDate(date_str, year) ==
    LET tokens == TokensOf(date_str)
    IN  /\ Len(tokens) = 2
        /\ MonthOf(tokens[2]) # 0
        /\ DayOf(tokens[1]) >= 1
        /\ DayOf(tokens[1]) <= MonthLengths(year)[MonthOf(tokens[2])]

\* The result reads YYYY-MM-DD with the given numbers in its fields.
ReadsAs(result, year, month, day) ==
    /\ Len(result) = 10
    /\ result[5] = "-" /\ result[8] = "-"
    /\ \A i \in {1, 2, 3, 4, 6, 7, 9, 10} : result[i] \in Digits
    /\ DigitsValue(SubSeq(result, 1, 4), 0) = year
    /\ DigitsValue(SubSeq(result, 6, 7), 0) = month
    /\ DigitsValue(SubSeq(result, 9, 10), 0) = day

\* C12: parse_romanian_date returns YYYY-MM-DD with the fields of the inputs
\* for every phrase of two tokens, a numeric day and a recognized month name,
\* that form a calendar date of the year, and returns None, without raising,
\* for every other phrase.
C12_DateOrNone ==
    resolver.pc \in {"returned", "raised"} =>
        /\ ~resolver.raised
        /\ IF IsCalendarDate(resolver.date_str, resolver.year)
           THEN LET tokens == TokensOf(resolver.date_str)
                IN  ReadsAs(resolver.result, resolver.year,
                            MonthOf(tokens[2]), DayOf(tokens[1]))
           ELSE resolver.result = NoneValue

(***************************************************************************)
(* build_episode_json run on the URLs that carry one video identifier:     *)
(* Init draws the identifier and the title, each step builds the record of *)
(* the next URL.                                                           *)
(***************************************************************************)

MaxIdLen == 3

\* Characters of a video identifier: letters, digits, "-" and "_".
IdAlphabet == {"a", "B", "7", "-", "_"}

Ids == UNION {[1..n -> IdAlphabet] : n \in 1..MaxIdLen}

\* The URLs that carry the identifier: the short link, the watch link, the
\* embed link, the legacy /v/ link; the watch link on the other host with a
\* parameter before v, the short link with a parameter; then a foreign host,
\* a short link without scheme and a path that is none of the four.
UrlsCarrying(id) ==
    << <<"https://", "youtu.be", "/">> \o id,
       <<"https://", "www.youtube.com", "/", "w", "a", "t", "c", "h", "?", "v", "=">> \o id,
       <<"https://", "www.youtube.com", "/", "e", "m", "b", "e", "d", "/">> \o id,
       <<"https://", "www.youtube.com", "/", "v", "/">> \o id,
       <<"http://", "youtube.com", "/", "w", "a", "t", "c", "h", "?",
         "t", "=", "5", "&", "v", "=">> \o id,
       <<"https://", "youtu.be", "/">> \o id \o <<"?", "t", "=", "5">>,
       <<"https://", "example.com", "/">> \o id,
       <<"youtu.be", "/">> \o id,
       <<"https://", "www.youtube.com", "/", "s", "h", "o", "r", "t", "s", "/">> \o id >>

InitEpisodeId ==
    /\ \E id \in Ids, title \in Titles, date \in Dates :
          recorder = [pc |-> "build", identifier |-> id, title |-> title,
                      date |-> date, urls |-> UrlsCarrying(id), episode_ids |-> <<>>]
    /\ output_dir = <<>>
    /\ chunker = Idle
    /\ cleaner = Idle
    /\ episode = Idle
    /\ locator = Idle
    /\ run = Idle
    /\ resolver = Idle

\* Lines 306-350: the record of the next URL is built.
BuildEpisodeJson ==
    /\ recorder.pc = "build"
    /\ Len(recorder.episode_ids) < Len(recorder.urls)
    /\ LET video_info == [url |-> recorder.urls[Len(recorder.episode_ids) + 1],
                          title |-> recorder.title, date |-> recorder.date]
           episode_data == build_episode_json(video_info, <<"x">>, << <<"x">> >>)
       IN  recorder' = [recorder EXCEPT
                          !.episode_ids = Append(@, episode_data.episode_id)]
    /\ UNCHANGED <<chunker, cleaner, episode, output_dir, locator, run, resolver>>

NextEpisodeId == BuildEpisodeJson

SpecEpisodeId == InitEpisodeId /\ [][NextEpisodeId]_vars

(***************************************************************************)
(* Claims about the episode id (checked under SpecEpisodeId)               *)
(***************************************************************************)

\* The places in UrlsCarrying of the URLs of a recognized shape.
RecognizedShapes == 1..6

\* The slug of each title of Titles with the date of Dates.
SlugOfTitle(title) ==
    IF title = <<"E", "p", " ", "1">>
    THEN <<"e", "p", "-", "1", "_", "2", "0", "2", "4", "-", "1", "2", "-", "0", "5">>
    ELSE <<"a", "-", "b", "_", "2", "0", "2", "4", "-", "1", "2", "-", "0", "5">>

\* C13: the URLs of the four recognized shapes that carry one identifier all
\* yield the same episode id, the identifier itself; the slug of title and
\* date is the episode id only of a URL from which no identifier can be
\* extracted.
C13_SameIdFromEveryShape ==
    recorder.pc = "build" =>
        LET built == 1..Len(recorder.episode_ids)
        IN  /\ \A k \in built \cap RecognizedShapes :
                  recorder.episode_ids[k] = recorder.identifier
            /\ \A j, k \in built \cap RecognizedShapes :
                  recorder.episode_ids[j] = recorder.episode_ids[k]
            /\ \A k \in built :
                  recorder.episode_ids[k] = SlugOfTitle(recorder.title)
                     => k \notin RecognizedShapes
            /\ \A k \in built \ RecognizedShapes :
                  recorder.episode_ids[k] = SlugOfTitle(recorder.title)

\* Every URL of an identifier with a hyphen, an underscore and a letter has
\* its record built.
C13_Witness ==
    /\ recorder.pc = "build"
    /\ Len(recorder.episode_ids) = Len(recorder.urls)
    /\ recorder.identifier = <<"-", "B", "_">>
    /\ recorder.episode_ids[4] = recorder.identifier
    /\ recorder.episode_ids[9] = SlugOfTitle(recorder.title)

=============================================================================
